---- MODULE Spec2Model ----
(***************************************************************************)
(* Mai3Servo: speed-controlled hobby servo (src/Mai3Servo.cpp).            *)
(*                                                                         *)
(* One servo object is a record of its member variables; every member      *)
(* function is an operator from the record (and the value of millis()) to  *)
(* the record after the call.  nextPos and increment are IEEE-754 single   *)
(* precision numbers, kept as <<mantissa, exponent>> pairs and rounded to  *)
(* 24 significant bits after every operation, as the hardware does.        *)
(***************************************************************************)
EXTENDS Integers, Sequences, FiniteSets, TLC

(***************************************************************************)
(* float arithmetic.  A finite float is <<m, e>> with value m * 2^e, and   *)
(* is either <<0, 0>> or normalised: 2^23 <= |m| < 2^24.  An infinity is   *)
(* <<1, FInfExp>> or <<-1, FInfExp>>.                                      *)
(***************************************************************************)
FMantBits == 24

FInfExp == 1000

Abs(i) == IF i < 0 THEN -i ELSE i

Sgn(i) == IF i < 0 THEN -1 ELSE 1

FZero == <<0, 0>>

FInf(sign) == <<sign, FInfExp>>

\* mag * 2^e (mag >= 0, below 2^31; plus a fraction of 2^e when sticky),
\* rounded to nearest with ties to even, with the given sign
FRoundNearest(sign, mag, e, sticky) ==
    IF mag = 0 THEN FZero
    ELSE IF mag < 2^(FMantBits - 1)
    THEN LET k == CHOOSE j \in 1..(FMantBits - 1) :
                      /\ mag * 2^j >= 2^(FMantBits - 1)
                      /\ mag * 2^j < 2^FMantBits
         IN  <<sign * mag * 2^k, e - k>>
    ELSE IF mag < 2^FMantBits THEN <<sign * mag, e>>
    ELSE LET k    == CHOOSE j \in 1..7 :
                         /\ mag >= 2^(FMantBits - 1 + j)
                         /\ (j = 7 \/ mag < 2^(FMantBits + j))
             q    == mag \div 2^k
             r    == mag % 2^k
             half == 2^(k - 1)
             up   == \/ r > half
                     \/ r = half /\ (sticky \/ q % 2 = 1)
             q1   == IF up THEN q + 1 ELSE q
         IN  IF q1 = 2^FMantBits
             THEN <<sign * 2^(FMantBits - 1), e + k + 1>>
             ELSE <<sign * q1, e + k>>

\* int -> float conversion: float(i)
FFromInt(i) == FRoundNearest(Sgn(i), Abs(i), 0, FALSE)

\* float(k) / float(n), correctly rounded; n = 0 gives an infinity
FDivInt(k, n) ==
    IF n = 0 THEN FInf(Sgn(k))
    ELSE IF k = 0 THEN FZero
    ELSE LET p   == CHOOSE j \in 0..30 :
                        /\ Abs(k) * 2^j >= 2^29
                        /\ (Abs(k) * 2^j) \div 2 < 2^29
             num == Abs(k) * 2^p
         IN  FRoundNearest(Sgn(k) * Sgn(n), num \div Abs(n), -p,
                           num % Abs(n) # 0)

\* x + y, correctly rounded
FAdd(x, y) ==
    IF x[1] = 0 THEN y
    ELSE IF y[1] = 0 THEN x
    ELSE IF x[2] = FInfExp THEN x
    ELSE IF y[2] = FInfExp THEN y
    ELSE LET big   == IF x[2] >= y[2] THEN x ELSE y
             small == IF x[2] >= y[2] THEN y ELSE x
             d     == big[2] - small[2]
         IN  IF d <= 5
             THEN LET m == big[1] * 2^d + small[1]
                  IN  FRoundNearest(Sgn(m), Abs(m), small[2], FALSE)
             ELSE LET sh   == d - 5
                      q    == IF sh >= FMantBits THEN 0
                              ELSE Abs(small[1]) \div 2^sh
                      rest == IF sh >= FMantBits THEN TRUE
                              ELSE Abs(small[1]) % 2^sh # 0
                      base == Abs(big[1]) * 32
                      same == Sgn(big[1]) = Sgn(small[1])
                      mag  == IF same THEN base + q
                              ELSE IF rest THEN base - q - 1 ELSE base - q
                  IN  FRoundNearest(Sgn(big[1]), mag, big[2] - 5, rest)

\* float -> int conversion, int(x): truncation toward zero
FTrunc(x) ==
    IF x[2] >= 0 THEN x[1] * 2^(x[2])
    ELSE IF -x[2] >= FMantBits THEN 0
    ELSE Sgn(x[1]) * (Abs(x[1]) \div 2^(-x[2]))

\* round(x): nearest integer, halves away from zero
FRound(x) ==
    IF x[2] >= 0 THEN x[1] * 2^(x[2])
    ELSE IF -x[2] > FMantBits THEN 0
    ELSE IF -x[2] = FMantBits THEN Sgn(x[1])
    ELSE Sgn(x[1]) * ((Abs(x[1]) + 2^(-x[2] - 1)) \div 2^(-x[2]))

(***************************************************************************)
(* Program constants and the domains the operations' inputs are drawn from *)
(***************************************************************************)
\* update(): "update 50 times per second"
TickPeriod == 20

\* update(): the least time between two position reports
StatusInterval == 90

\* writeServoPosition: an inverted servo gets 180 - position
InvertBase == 180

\* the clock (millis()) starts at 0 and is followed up to MaxTime; the main
\* loop calls update() every TimeStep milliseconds, and may call it again
\* before the clock has moved on
MaxTime == 220

TimeStep == 20

\* the member min, which begin never assigns, holds 0 or some other value
MaxUnset == 200

UnsetValues == {0, MaxUnset}

\* the arguments of begin.  The inverted servo is the twin of SpecPair.
ServoMins == {0, 90}

ServoMaxs == {180}

AutoDetachTimes == {0, 40}

StartPositions == {90}

Inversions == {FALSE}

\* the arguments of setLastPosition: inside and outside the configured range
Positions == {90, 181}

\* the arguments of moveTo: 89 is below the range of begin(90, 180, ...), a
\* duration of 10 is shorter than one tick period
Targets == {89, 90, 120}

Durations == {10, 40, 200}

\* the calls the main program makes besides begin and update
MaxCalls == 2

VARIABLES unit, twin, now, g

vars == <<unit, twin, now, g>>

(***************************************************************************)
(* The object as constructed: not assigned, driver detached.  "min" is     *)
(* never written by any member function, so it keeps whatever it held.     *)
(***************************************************************************)
Constructed(unsetMin) ==
    [assigned |-> FALSE, attached |-> FALSE,
     min |-> unsetMin, max |-> 0, autoDetachMs |-> 0, inverted |-> FALSE,
     lastPosition |-> 0, nextPos |-> FZero, increment |-> FZero,
     numIncrements |-> 0, moving |-> FALSE, inMoveRequest |-> FALSE,
     arrivedMillis |-> 0, lastMillis |-> 0, lastStatusUpdate |-> 0,
     loggedLastPos |-> 0,
     written |-> <<>>, status |-> <<>>]

\* written and status list the servo.write and sendServoStatus calls of the
\* latest member function call
Quiet(s) == [s EXCEPT !.written = <<>>, !.status = <<>>]

sendServoStatus(s, kind, position, moving) ==
    [s EXCEPT !.status = Append(@, [kind |-> kind, position |-> position,
                                    moving |-> moving])]

(***************************************************************************)
(* Member functions                                                        *)
(***************************************************************************)
begin(s, servoMin, servoMax, servoAutoDetachMs, servoInverted, servoLastPos) ==
    \* "int min = servoMin;" declares a local: the member min is not assigned
    [Quiet(s) EXCEPT !.assigned = TRUE,
                     !.max = servoMax,
                     !.autoDetachMs = servoAutoDetachMs,
                     !.inverted = servoInverted,
                     !.lastPosition = servoLastPos,
                     !.inMoveRequest = FALSE,
                     !.attached = FALSE]

attach(s) == [s EXCEPT !.attached = TRUE]

\* faulty variant: the inverted flag is ignored
writeServoPositionAsIs(s, position, inverted) ==
    [s EXCEPT !.written = Append(@, position)]

writeServoPosition(s, position, inverted) ==
    [s EXCEPT !.written =
        Append(@, IF inverted THEN InvertBase - position ELSE position)]

powerUp(s) == attach(writeServoPosition(Quiet(s), s.lastPosition, s.inverted))

stopServo(s, millis) ==
    LET t == [Quiet(s) EXCEPT !.numIncrements = 0,
                              !.arrivedMillis = millis,
                              !.lastPosition = FTrunc(s.nextPos)]
        u == sendServoStatus(t, "stop", t.lastPosition, t.moving)
    IN  [u EXCEPT !.loggedLastPos = t.lastPosition,
                  !.lastStatusUpdate = millis]

setLastPosition(s, newLastPosition) ==
    [Quiet(s) EXCEPT !.lastPosition = newLastPosition]

\* faulty variant: the two limits are taken for each other
adjustOutlierSwapped(s, targetPos) ==
    LET a1 == IF targetPos < s.max THEN s.max ELSE targetPos
    IN  IF targetPos > s.min THEN s.min ELSE a1

adjustOutlierPosition(s, targetPos) ==
    LET a1 == IF targetPos < s.min THEN s.min ELSE targetPos
    IN  IF targetPos > s.max THEN s.max ELSE a1

detachServo(s, forceDetach) ==
    IF s.attached \/ forceDetach THEN [Quiet(s) EXCEPT !.attached = FALSE]
    ELSE Quiet(s)

\* faulty variant: the step count is one too high
PlanMoveExtraStep(s, targetPos, duration, millis) ==
    [s EXCEPT !.numIncrements = duration \div TickPeriod + 1,
              !.increment = FDivInt(targetPos - s.lastPosition,
                                    duration \div TickPeriod + 1),
              !.nextPos = FFromInt(s.lastPosition),
              !.moving = TRUE,
              !.lastStatusUpdate = millis]

\* faulty variant: a duration below one tick period is given one step
PlanMoveAtLeastOneStep(s, targetPos, duration, millis) ==
    LET n == IF duration < TickPeriod THEN 1 ELSE duration \div TickPeriod
    IN  [s EXCEPT !.numIncrements = n,
                  !.increment = FDivInt(targetPos - s.lastPosition, n),
                  !.nextPos = FFromInt(s.lastPosition),
                  !.moving = TRUE,
                  !.lastStatusUpdate = millis]

\* the step plan of a move request to a position other than the held one
PlanMove(s, targetPos, duration, millis) ==
    [s EXCEPT !.numIncrements = duration \div TickPeriod,
              !.increment = FDivInt(targetPos - s.lastPosition,
                                    duration \div TickPeriod),
              !.nextPos = FFromInt(s.lastPosition),
              !.moving = TRUE,
              !.lastStatusUpdate = millis]

\* faulty variant: the request to the held position is not ignored
SamePositionMoves(s) ==
    [s EXCEPT !.nextPos = FFromInt(s.lastPosition), !.moving = TRUE]

\* a move request to the held position
SamePosition(s) == [s EXCEPT !.nextPos = FFromInt(s.lastPosition)]

\* faulty variant: the request is served although the unit is not assigned
moveToUnassigned(s, targetPos, duration, millis) ==
    LET a == IF ~s.attached THEN attach(Quiet(s)) ELSE Quiet(s)
        t == adjustOutlierPosition(a, targetPos)
        b == [a EXCEPT !.arrivedMillis = millis + duration,
                       !.inMoveRequest = TRUE]
    IN  IF t = b.lastPosition THEN SamePosition(b)
        ELSE PlanMove(b, t, duration, millis)

moveTo(s, targetPos, duration, millis) ==
    IF ~s.assigned THEN Quiet(s)
    ELSE LET a == IF ~s.attached THEN attach(Quiet(s)) ELSE Quiet(s)
             t == adjustOutlierPosition(a, targetPos)
             b == [a EXCEPT !.arrivedMillis = millis + duration,
                            !.inMoveRequest = TRUE]
         IN  IF t = b.lastPosition THEN SamePosition(b)
             ELSE PlanMove(b, t, duration, millis)

\* faulty variant: the report is not held back by the interval
StatusDueUnthrottled(s, millis) ==
    FTrunc(s.nextPos) # s.loggedLastPos

\* update(): the limited-interval status report
StatusDue(s, millis) ==
    /\ FTrunc(s.nextPos) # s.loggedLastPos
    /\ millis - s.lastStatusUpdate > StatusInterval

PeriodicStatus(s, millis) ==
    IF StatusDue(s, millis)
    THEN [sendServoStatus(s, "position", s.nextPos, s.moving)
            EXCEPT !.loggedLastPos = FTrunc(s.nextPos),
                   !.lastStatusUpdate = millis]
    ELSE s

\* update(): target reached
TargetReached(s) == s.moving /\ s.numIncrements <= 0

\* faulty variant: the arrival is not reported
ArriveSilently(s, millis) ==
    [s EXCEPT !.moving = FALSE,
              !.arrivedMillis = millis,
              !.lastPosition = FRound(s.nextPos)]

Arrive(s, millis) ==
    LET t == [s EXCEPT !.moving = FALSE,
                       !.arrivedMillis = millis,
                       !.lastPosition = FRound(s.nextPos)]
    IN  sendServoStatus(t, "arrived", t.lastPosition, t.moving)

\* update(): the delayed detach
DetachPending(s) == s.inMoveRequest /\ s.autoDetachMs > 0

ArrivalInFuture(s, millis) == s.arrivedMillis > millis

\* faulty variant: the request is cleared already when autoDetachMs has just elapsed
DetachDueAtLimit(s, millis) ==
    ~s.moving /\ millis - s.arrivedMillis >= s.autoDetachMs

\* faulty variant: the request is cleared without looking at moving
DetachDueWhileMoving(s, millis) ==
    millis - s.arrivedMillis > s.autoDetachMs

DetachDue(s, millis) ==
    ~s.moving /\ millis - s.arrivedMillis > s.autoDetachMs

ClearMoveRequest(s) ==
    sendServoStatus([s EXCEPT !.inMoveRequest = FALSE],
                    "detach", s.nextPos, s.moving)

\* update(): the next partial target position
NextIncrement(s) ==
    IF s.numIncrements > 0
    THEN LET t == [s EXCEPT !.lastPosition = FRound(s.nextPos),
                            !.nextPos = FAdd(s.nextPos, s.increment),
                            !.numIncrements = @ - 1]
         IN  writeServoPosition(t, FTrunc(t.nextPos), t.inverted)
    ELSE s

\* whether a call of update() gets past its early returns
TickIsDue(s, millis) ==
    s.assigned /\ s.attached /\ ~(millis - s.lastMillis < TickPeriod)

\* faulty variant: the delayed detach is looked at before the arrival
updateDetachFirst(s, millis) ==
    IF ~TickIsDue(s, millis) THEN Quiet(s)
    ELSE LET a == PeriodicStatus([Quiet(s) EXCEPT !.lastMillis = millis], millis)
         IN  IF DetachPending(a) /\ ArrivalInFuture(a, millis) THEN a
             ELSE IF TargetReached(a) THEN Arrive(a, millis)
             ELSE IF DetachPending(a) /\ DetachDue(a, millis)
                  THEN ClearMoveRequest(a)
             ELSE NextIncrement(a)

update(s, millis) ==
    IF ~TickIsDue(s, millis) THEN Quiet(s)
    ELSE LET a == PeriodicStatus([Quiet(s) EXCEPT !.lastMillis = millis], millis)
         IN  IF TargetReached(a) THEN Arrive(a, millis)
             ELSE IF DetachPending(a) /\ ArrivalInFuture(a, millis) THEN a
             ELSE IF DetachPending(a) /\ DetachDue(a, millis)
                  THEN ClearMoveRequest(a)
             ELSE NextIncrement(a)

(***************************************************************************)
(* History variable g: what the caller asked for, kept to state the        *)
(* properties.  It is never read by a member function.                     *)
(*   op          the latest call                                           *)
(*   calls       the calls made so far, other than begin and update        *)
(*   servoMin    the servoMin argument of begin                            *)
(*   target, clamped, duration   the latest accepted moveTo                *)
(*   planned     that moveTo produced a step plan                          *)
(*   atRest      it was issued on an attached unit that was not moving     *)
(*   ticks       calls of update past the early returns since then         *)
(*   steps       those of them that did not return on a future arrival time*)
(*   disturbed   another member function was called since then             *)
(*   arrivalAt   when update detected the arrival (-1: not since the       *)
(*               latest moveTo, stopServo or begin)                        *)
(*   emitAt      when update last reported a status with moving = true     *)
(*   emitGap     the time between that report and the one before it, when  *)
(*               the latest call made such a report (-1 otherwise)         *)
(*   stopped     the lastPosition that stopServo left, when it was called  *)
(*               during a move and no moveTo, setLastPosition or powerUp   *)
(*               was called since (-1 otherwise)                           *)
(*   flight      the clamped target of the latest moveTo that produced a   *)
(*               step plan, when it was issued on a unit at rest with a    *)
(*               duration of at least one tick period and nothing but      *)
(*               update and moveTo to the held position was called since   *)
(*               (-1 otherwise)                                            *)
(*   nudged      a moveTo to the held position was called while that move  *)
(*               was in progress                                           *)
(***************************************************************************)
CeilDiv(a, b) == (a + b - 1) \div b

NoRequest ==
    [op |-> "construct", calls |-> 0, servoMin |-> 0,
     target |-> 0, clamped |-> 0, duration |-> 0,
     planned |-> FALSE, atRest |-> FALSE,
     ticks |-> 0, steps |-> 0, disturbed |-> TRUE,
     arrivalAt |-> -1, emitAt |-> -1, emitGap |-> -1, stopped |-> -1,
     flight |-> -1, nudged |-> FALSE]

Note(op) == [g EXCEPT !.op = op, !.emitGap = -1]

Call(op) == [Note(op) EXCEPT !.calls = @ + 1]

Disturb(op) == [Call(op) EXCEPT !.disturbed = TRUE, !.flight = -1]

\* counting stops one past the number of ticks a property asks about
Counted(n, limit) == IF n <= limit THEN n + 1 ELSE n

MovingReports(s) == {i \in DOMAIN s.status : s.status[i].moving}

Init ==
    /\ \E m \in UnsetValues : unit = Constructed(m)
    /\ twin = unit
    /\ now = 0
    /\ g = NoRequest

Begin(servoMin, servoMax, servoAutoDetachMs, servoInverted, servoLastPos) ==
    /\ ~unit.assigned
    /\ unit' = begin(unit, servoMin, servoMax, servoAutoDetachMs,
                     servoInverted, servoLastPos)
    /\ g' = [Note("begin") EXCEPT !.servoMin = servoMin, !.disturbed = TRUE,
                                  !.arrivalAt = -1]
    /\ UNCHANGED now

PowerUp ==
    /\ unit.assigned
    /\ g.calls < MaxCalls
    /\ unit' = powerUp(unit)
    /\ g' = [Disturb("powerUp") EXCEPT !.stopped = -1]
    /\ UNCHANGED now

Attach ==
    /\ unit.assigned
    /\ g.calls < MaxCalls
    /\ ~unit.attached
    /\ unit' = attach(Quiet(unit))
    /\ g' = Disturb("attach")
    /\ UNCHANGED now

DetachServo(forceDetach) ==
    /\ unit.assigned
    /\ g.calls < MaxCalls
    /\ unit' = detachServo(unit, forceDetach)
    /\ g' = Disturb("detachServo")
    /\ UNCHANGED now

StopServo ==
    /\ unit.assigned
    /\ g.calls < MaxCalls
    /\ unit' = stopServo(unit, now)
    /\ g' = [Disturb("stopServo") EXCEPT
                !.arrivalAt = -1,
                !.stopped = IF unit.moving THEN unit'.lastPosition ELSE @]
    /\ UNCHANGED now

SetLastPosition(newLastPosition) ==
    /\ unit.assigned
    /\ g.calls < MaxCalls
    /\ unit' = setLastPosition(unit, newLastPosition)
    /\ g' = [Disturb("setLastPosition") EXCEPT !.stopped = -1]
    /\ UNCHANGED now

MoveTo(targetPos, duration) ==
    /\ g.calls < MaxCalls
    /\ unit' = moveTo(unit, targetPos, duration, now)
    /\ g' = IF ~unit.assigned THEN Call("moveTo rejected")
            ELSE LET c == adjustOutlierPosition(unit, targetPos)
                 IN  [Call(IF c = unit.lastPosition THEN "moveTo same"
                                                    ELSE "moveTo planned")
                        EXCEPT !.target = targetPos, !.clamped = c,
                               !.duration = duration,
                               !.planned = (c # unit.lastPosition),
                               !.atRest = unit.attached /\ ~unit.moving,
                               !.ticks = 0, !.steps = 0,
                               !.disturbed = FALSE, !.arrivalAt = -1,
                               !.stopped = -1,
                               !.flight =
                                   IF c = unit.lastPosition THEN @
                                   ELSE IF duration >= TickPeriod /\ ~unit.moving
                                        THEN c ELSE -1,
                               !.nudged =
                                   IF c = unit.lastPosition
                                   THEN @ \/ (unit.moving /\ g.flight # -1)
                                   ELSE FALSE]
    /\ UNCHANGED now

\* the history after update(), called on the unit in state s at time millis
Polled(s, millis) ==
    IF ~TickIsDue(s, millis) THEN Note("update early return")
    ELSE LET skipped  == /\ ~TargetReached(s)
                         /\ DetachPending(s)
                         /\ ArrivalInFuture(s, millis)
             after    == update(s, millis)
             reported == MovingReports(after) # {}
         IN  [Note("update") EXCEPT
                !.ticks = Counted(@, CeilDiv(g.duration, TickPeriod)),
                !.steps = IF skipped THEN @
                         ELSE Counted(@, g.duration \div TickPeriod + 1),
                !.arrivalAt = IF s.moving /\ ~after.moving THEN millis ELSE @,
                !.emitAt = IF reported THEN millis ELSE @,
                !.emitGap = IF reported /\ g.emitAt >= 0
                            THEN millis - g.emitAt ELSE -1]

\* the main loop calls update() again before the clock has moved on
Update ==
    /\ unit' = update(unit, now)
    /\ g' = Polled(unit, now)
    /\ UNCHANGED now

\* the main loop calls update() after TimeStep more milliseconds
Tick ==
    /\ unit.assigned
    /\ now + TimeStep <= MaxTime
    /\ now' = now + TimeStep
    /\ unit' = update(unit, now')
    /\ g' = Polled(unit, now')

Next ==
    /\ \/ \E a \in ServoMins, b \in ServoMaxs, c \in AutoDetachTimes,
            d \in Inversions, e \in StartPositions : Begin(a, b, c, d, e)
       \/ PowerUp
       \/ Attach
       \/ \E f \in BOOLEAN : DetachServo(f)
       \/ StopServo
       \/ \E p \in Positions : SetLastPosition(p)
       \/ \E t \in Targets, d \in Durations : MoveTo(t, d)
       \/ Update
       \/ Tick
    /\ UNCHANGED twin

Spec == Init /\ [][Next]_vars

(***************************************************************************)
(* Two units that differ in the inverted flag only, given the same calls   *)
(* at the same times: twin gets every call unit gets, and is the inverted  *)
(* one of the two.                                                         *)
(***************************************************************************)
PairNext ==
    \/ \E a \in ServoMins, b \in ServoMaxs, c \in AutoDetachTimes,
         e \in StartPositions :
           Begin(a, b, c, FALSE, e) /\ twin' = begin(twin, a, b, c, TRUE, e)
    \/ PowerUp /\ twin' = powerUp(twin)
    \/ Attach /\ twin' = attach(Quiet(twin))
    \/ \E f \in BOOLEAN : DetachServo(f) /\ twin' = detachServo(twin, f)
    \/ StopServo /\ twin' = stopServo(twin, now)
    \/ \E p \in Positions : SetLastPosition(p) /\ twin' = setLastPosition(twin, p)
    \/ \E t \in Targets, d \in Durations :
           MoveTo(t, d) /\ twin' = moveTo(twin, t, d, now)
    \/ Update /\ twin' = update(twin, now)
    \/ Tick /\ twin' = update(twin, now')

SpecPair == Init /\ [][PairNext]_vars

(***************************************************************************)
(* Two units that differ in autoDetachMs only, given the same calls at the *)
(* same times: unit is configured with a delayed detach, twin with none.   *)
(***************************************************************************)
DetachPairNext ==
    \/ \E a \in ServoMins, b \in ServoMaxs, c \in AutoDetachTimes \ {0},
         e \in StartPositions :
           Begin(a, b, c, FALSE, e) /\ twin' = begin(twin, a, b, 0, FALSE, e)
    \/ PowerUp /\ twin' = powerUp(twin)
    \/ Attach /\ twin' = attach(Quiet(twin))
    \/ \E f \in BOOLEAN : DetachServo(f) /\ twin' = detachServo(twin, f)
    \/ StopServo /\ twin' = stopServo(twin, now)
    \/ \E p \in Positions : SetLastPosition(p) /\ twin' = setLastPosition(twin, p)
    \/ \E t \in Targets, d \in Durations :
           MoveTo(t, d) /\ twin' = moveTo(twin, t, d, now)
    \/ Update /\ twin' = update(twin, now)
    \/ Tick /\ twin' = update(twin, now')

SpecDetachPair == Init /\ [][DetachPairNext]_vars

(***************************************************************************)
(* A unit that, once configured with servoMin <= servoLastPos <= servoMax, *)
(* gets nothing but moveTo with a duration of at least one tick period,    *)
(* update and stopServo.                                                   *)
(***************************************************************************)
MotionNext ==
    /\ \/ \E a \in ServoMins, b \in ServoMaxs, c \in AutoDetachTimes,
            d \in Inversions, e \in StartPositions :
              a <= e /\ e <= b /\ Begin(a, b, c, d, e)
       \/ StopServo
       \/ \E t \in Targets, d \in Durations :
              d >= TickPeriod /\ MoveTo(t, d)
       \/ Update
       \/ Tick
    /\ UNCHANGED twin

SpecMotion == Init /\ [][MotionNext]_vars

(***************************************************************************)
(* adjustOutlierPosition on its own: the unit holds any calibration, the   *)
(* function is applied to any position, and g keeps argument and result.   *)
(***************************************************************************)
MaxClamp == 4

ClampValues == 0..MaxClamp

ClampInputs == -1..(MaxClamp + 1)

InitClamp ==
    /\ \E m \in ClampValues : unit = Constructed(m)
    /\ twin = unit
    /\ now = 0
    /\ g = NoRequest

BeginClamp ==
    /\ \E a \in ClampValues, b \in ClampValues, e \in ClampValues :
           Begin(a, b, 0, FALSE, e)
    /\ UNCHANGED twin

AdjustOutlierPosition ==
    /\ unit.assigned
    /\ \E x \in ClampInputs :
           g' = [g EXCEPT !.op = "adjustOutlierPosition",
                          !.target = x,
                          !.clamped = adjustOutlierPosition(unit, x)]
    /\ UNCHANGED <<unit, twin, now>>

NextClamp == BeginClamp \/ AdjustOutlierPosition

SpecClamp == InitClamp /\ [][NextClamp]_vars

(***************************************************************************)
(* Properties                                                              *)
(***************************************************************************)
\* the latest moveTo was issued on an assigned, attached unit at rest, with
\* a duration of at least one tick period and a target that the clamp left
\* alone and that differed from the held position, and nothing but update
\* was called since
RestMove ==
    /\ g.planned /\ g.atRest /\ ~g.disturbed
    /\ g.duration >= TickPeriod
    /\ g.clamped = g.target

Settled == ~unit.moving /\ unit.lastPosition = g.target

\* C1 as stated: ceil(duration / 20) effective ticks after such a moveTo,
\* with the target inside the configured range, the unit is not moving and
\* holds the target.
C1_AfterCeilTicks ==
    ( /\ RestMove
      /\ g.servoMin <= g.target /\ g.target <= unit.max
      /\ g.ticks = CeilDiv(g.duration, TickPeriod) )
    => Settled

\* C1 amended: the unit is not moving and holds the target after
\* duration / 20 (integer division) + 1 effective ticks, not counting the
\* ticks on which update returns because a delayed detach is configured and
\* arrivedMillis is still in the future.
C1_AfterPlanPlusOneTicks ==
    (RestMove /\ g.steps = g.duration \div TickPeriod + 1) => Settled

C1_Witness ==
    /\ RestMove /\ g.op = "update"
    /\ g.target = 120 /\ g.duration = 200 /\ g.steps = 11
    /\ unit.lastPosition = 120 /\ ~unit.moving

\* C2 as stated, in the form a finite run refutes: after an accepted moveTo
\* of at least one tick period, with nothing but update called since, a unit
\* that is not (or no longer) moving holds the clamped target.  (From then
\* on update changes neither moving nor lastPosition.)
C2_RestsAtClampedTarget ==
    ( /\ g.op # "construct" /\ ~g.disturbed
      /\ g.duration >= TickPeriod
      /\ ~unit.moving )
    => unit.lastPosition = g.clamped

\* C3 as stated: with servoMin <= servoMax, adjustOutlierPosition clamps to
\* the configured [servoMin, servoMax].
C3_ClampsToConfiguredRange ==
    ( /\ g.op = "adjustOutlierPosition"
      /\ g.servoMin <= unit.max )
    => g.clamped = IF g.target < g.servoMin THEN g.servoMin
                   ELSE IF g.target > unit.max THEN unit.max
                   ELSE g.target

\* C4 as stated: adjustOutlierPosition applied to its own result returns it,
\* for every calibration the unit holds.
C4_Idempotent ==
    g.op = "adjustOutlierPosition"
    => adjustOutlierPosition(unit, g.clamped) = g.clamped

\* C4 amended: adjustOutlierPosition applied to its own result returns it,
\* for every calibration with min <= max.
C4_IdempotentOnOrderedRange ==
    (g.op = "adjustOutlierPosition" /\ unit.min <= unit.max)
    => adjustOutlierPosition(unit, g.clamped) = g.clamped

C4_Witness ==
    /\ g.op = "adjustOutlierPosition"
    /\ unit.min < unit.max
    /\ g.target > unit.max
    /\ g.clamped = unit.max

\* C5: a moveTo whose clamped target is the held position does not set
\* moving and does not change lastPosition.
C5_SamePositionIsNoMove ==
    [][ g'.op = "moveTo same"
        => /\ unit'.moving => unit.moving
           /\ unit'.lastPosition = unit.lastPosition ]_vars

C5_Witness ==
    /\ g.op = "moveTo same"
    /\ unit.moving /\ unit.numIncrements > 0

\* C6 as stated: after stopServo during a move, numIncrements is 0 and
\* lastPosition lies within the configured [servoMin, servoMax].
\* (stopServo leaves moving as it is.)
C6_StopLeavesPositionInRange ==
    (g.op = "stopServo" /\ unit.moving)
    => /\ unit.numIncrements = 0
       /\ g.servoMin <= unit.lastPosition
       /\ unit.lastPosition <= unit.max

\* C7: with a delayed detach configured, on every effective tick after the
\* arrival was detected (and no moveTo or stopServo since), inMoveRequest
\* stays true while now - arrival time <= autoDetachMs and becomes false on
\* the first tick where it is greater.
C7_DetachTiming ==
    [][ ( /\ g'.op = "update"
          /\ g.arrivalAt >= 0
          /\ unit.autoDetachMs > 0
          /\ unit.inMoveRequest )
        => unit'.inMoveRequest = (now' - g.arrivalAt <= unit.autoDetachMs) ]_vars

C7_Witness ==
    /\ g.op = "update" /\ g.arrivalAt >= 0
    /\ unit.autoDetachMs > 0
    /\ now - g.arrivalAt > unit.autoDetachMs
    /\ ~unit.inMoveRequest
    /\ Len(unit.status) = 1 /\ unit.status[1].kind = "detach"

\* C8: two consecutive status reports that update makes while a move is in
\* progress (reports with moving = true) are at least StatusInterval apart.
C8_ReportsThrottled == g.emitGap = -1 \/ g.emitGap >= StatusInterval

C8_Witness ==
    /\ g.op = "update" /\ g.emitGap >= StatusInterval
    /\ unit.numIncrements > 0

\* the latest call was the update that detected the arrival
ArrivalTick == g.op = "update" /\ g.arrivalAt = now

ArrivalReports == {i \in DOMAIN unit.status : unit.status[i].kind = "arrived"}

\* C9 as stated: the tick that detects the arrival emits exactly one status
\* event.
C9_OneEventOnArrival == ArrivalTick => Len(unit.status) = 1

\* C9 amended: the tick that detects the arrival emits exactly one arrival
\* event (moving = false, the held position), as its last event; the only
\* other event it can emit is the limited-interval position report, before
\* it.
C9_OneArrivalEvent ==
    ArrivalTick
    => /\ ArrivalReports = {Len(unit.status)}
       /\ unit.status[Len(unit.status)] =
              [kind |-> "arrived", position |-> unit.lastPosition,
               moving |-> FALSE]
       /\ Len(unit.status) <= 2
       /\ Len(unit.status) = 2 => unit.status[1].kind = "position"

C9_Witness ==
    /\ ArrivalTick
    /\ Len(unit.status) = 2
    /\ unit.status[1].moving /\ ~unit.status[2].moving

\* C10: two units that differ in the inverted flag only and get the same
\* calls at the same times agree on every member but inverted, report the
\* same status events, and the inverted one writes 180 - p where the other
\* writes p.
Bookkeeping(s) == [s EXCEPT !.inverted = FALSE, !.written = <<>>]

Mirrored(plain, inv) ==
    /\ Len(plain.written) = Len(inv.written)
    /\ \A i \in DOMAIN plain.written :
           inv.written[i] = InvertBase - plain.written[i]

C10_InversionOnlyInWrites ==
    /\ Bookkeeping(unit) = Bookkeeping(twin)
    /\ IF unit.assigned
       THEN ~unit.inverted /\ twin.inverted /\ Mirrored(unit, twin)
       ELSE unit.written = twin.written

C10_Witness ==
    /\ g.op = "update"
    /\ ~unit.inverted /\ twin.inverted
    /\ unit.written = <<93>> /\ twin.written = <<87>>
    /\ unit.nextPos = twin.nextPos /\ FTrunc(twin.nextPos) = 93

\* the members a move request works on, and the driver's attached state
MoveState(s) ==
    <<s.lastPosition, s.nextPos, s.numIncrements, s.increment, s.moving,
      s.inMoveRequest, s.arrivedMillis, s.attached>>

\* C11: a moveTo on a unit that is not assigned changes none of
\* lastPosition, nextPos, numIncrements, increment, moving, inMoveRequest,
\* arrivedMillis and the driver's attached state, whatever the target and
\* the duration.
C11_UnassignedMoveRejected ==
    [][ g'.op = "moveTo rejected"
        => /\ MoveState(unit') = MoveState(unit)
           /\ ~unit'.assigned ]_vars

C11_Witness ==
    /\ g.op = "moveTo rejected"
    /\ ~unit.assigned /\ ~unit.attached /\ ~unit.inMoveRequest

\* a move with no step left to take
StepsDone(s) == s.moving /\ s.numIncrements = 0

\* C12 as stated: from a state with numIncrements = 0 and moving = true,
\* one call of update leaves moving = false.
C12_SettledByNextUpdate ==
    [][ (g'.op \in {"update", "update early return"} /\ StepsDone(unit))
        => ~unit'.moving ]_vars

\* C12 amended: from a state with numIncrements = 0 and moving = true, one
\* effective tick (a call of update on an assigned unit with the driver
\* attached, at least TickPeriod after the previous effective tick) leaves
\* moving = false, whether or not a delayed detach is pending.
C12_SettledByNextTick ==
    [][ (g'.op = "update" /\ StepsDone(unit)) => ~unit'.moving ]_vars

C12_Witness ==
    /\ ArrivalTick /\ ~unit.moving /\ unit.numIncrements = 0
    /\ unit.autoDetachMs > 0 /\ unit.inMoveRequest
    /\ g.duration > TimeStep /\ g.op = "update" /\ g.ticks = 1

\* a moveTo has been accepted, and so has applied the clamp
MoveRequested == g.duration \in Durations

\* C13 as stated: once a moveTo has applied the clamp, lastPosition lies
\* within the configured [servoMin, servoMax], whatever is called next.
C13_HeldPositionInRange ==
    MoveRequested
    => /\ g.servoMin <= unit.lastPosition
       /\ unit.lastPosition <= unit.max

\* C14 as stated: once a moveTo has been accepted, a unit that is not
\* moving has nextPos equal to lastPosition.
C14_RestingAtHeldPosition ==
    (MoveRequested /\ ~unit.moving)
    => unit.nextPos = FFromInt(unit.lastPosition)

\* the step is a call of update
UpdateCall == g'.op \in {"update", "update early return"}

\* C15: inMoveRequest is true only after a moveTo has been accepted; update
\* does not clear it while moving is true; update clears it only with a
\* delayed detach configured, the unit not moving and more than
\* autoDetachMs elapsed since arrivedMillis; and update does not set it, so
\* it is cleared once for each request.
C15_MoveRequestDiscipline ==
    [][ /\ unit'.inMoveRequest => MoveRequested'
        /\ (UpdateCall /\ unit.inMoveRequest /\ unit.moving)
               => unit'.inMoveRequest
        /\ (UpdateCall /\ unit.inMoveRequest /\ ~unit'.inMoveRequest)
               => /\ unit.autoDetachMs > 0
                  /\ ~unit.moving
                  /\ now' - unit.arrivedMillis > unit.autoDetachMs
        /\ (UpdateCall /\ ~unit.inMoveRequest) => ~unit'.inMoveRequest ]_vars

C15_Witness ==
    /\ g.op = "update" /\ MoveRequested
    /\ ~unit.inMoveRequest /\ ~unit.moving
    /\ unit.autoDetachMs > 0
    /\ now - unit.arrivedMillis = unit.autoDetachMs + TimeStep
    /\ unit.status = <<[kind |-> "detach", position |-> unit.nextPos,
                        moving |-> FALSE]>>

\* C16 as stated: after stopServo during a move, and until the next moveTo,
\* setLastPosition or powerUp, no call of update writes a position to the
\* driver or changes lastPosition from the value stopServo left in it.
C16_StopFreezesPosition ==
    [][ (UpdateCall /\ g.stopped # -1)
        => /\ unit'.written = <<>>
           /\ unit'.lastPosition = g.stopped ]_vars

\* the call detected the arrival of unit s
Arrives(s, after) == s.moving /\ ~after.moving

\* C17 as stated: a unit with a delayed detach writes, in every call of
\* update, the positions that a unit without one writes when both get the
\* same calls at the same times, and detects the arrival in the same call;
\* every effective tick with moving = true and numIncrements > 0 takes one
\* interpolation step.
C17_DetachDelayLeavesMotionAlone ==
    [][ UpdateCall
        => /\ unit'.written = twin'.written
           /\ Arrives(unit, unit') = Arrives(twin, twin')
           /\ (g'.op = "update" /\ unit.moving /\ unit.numIncrements > 0)
                  => unit'.numIncrements = unit.numIncrements - 1 ]_vars

\* C18 as stated: a move in progress, to which nothing but a moveTo to the
\* held position has been added, ends with moving = false and the held
\* position at the move's clamped target.
C18_SamePositionLeavesMoveAlone ==
    (g.flight # -1 /\ g.nudged /\ ~unit.moving)
    => unit.lastPosition = g.flight

\* C19 as stated: after moveTo with a duration of at least one tick period,
\* update and stopServo only, every position that update writes to the
\* driver lies within the configured [servoMin, servoMax].
C19_WritesInConfiguredRange ==
    g.op = "update"
    => \A i \in DOMAIN unit.written :
           /\ g.servoMin <= unit.written[i]
           /\ unit.written[i] <= unit.max

\* the latest call but update was a moveTo with a duration below one tick
\* period and a clamped target other than the held position, and update has
\* not got past its early returns since
ShortMovePending ==
    /\ g.planned /\ ~g.disturbed
    /\ g.duration < TickPeriod
    /\ g.ticks = 0

\* C20: a moveTo with a duration below one tick period, whose clamped
\* target is not the held position, sets moving and writes nothing; the
\* calls of update up to the next effective tick write nothing and leave
\* lastPosition as it was, and that tick leaves moving = false and the held
\* position other than the requested one.
C20_ShortMoveGoesNowhere ==
    [][ /\ (g'.op = "moveTo planned" /\ g'.duration < TickPeriod)
            => /\ unit'.moving
               /\ unit'.numIncrements = 0
               /\ unit'.written = <<>>
               /\ unit'.lastPosition = unit.lastPosition
        /\ (ShortMovePending /\ UpdateCall)
            => /\ unit'.written = <<>>
               /\ unit'.lastPosition = unit.lastPosition
               /\ g'.op = "update"
                     => ~unit'.moving /\ unit'.lastPosition # g.clamped ]_vars

C20_Witness ==
    /\ g.op = "update" /\ g.planned /\ ~g.disturbed
    /\ g.duration < TickPeriod /\ g.ticks = 1
    /\ ~unit.moving /\ unit.written = <<>>
    /\ unit.increment = FInf(1)
    /\ g.clamped = 120 /\ unit.lastPosition = 90

====
